---- MODULE Spec2Model ----
(***************************************************************************)
(* KeychainSyncedStore (src/src/keychainStorage.ts): an in-memory map that *)
(* is persisted, encrypted, to AsyncStorage by fire-and-forget syncs, with *)
(* the encryption key kept in the keychain and rotated by                  *)
(* setEnableBiometrics.  Every await of the source is a suspension point:  *)
(* there is one action per resumption of an async function, and the effect *)
(* of an awaited collaborator call takes place when the call resolves.     *)
(***************************************************************************)
EXTENDS Integers, FiniteSets, Sequences, TLC

(* ------------------------------ bounds -------------------------------- *)
MaxInFlight == 2
MaxKeys == 3
MaxRestarts == 1
MaxCalls == 4
MaxCallsAfterRestart == 2
NumIVs == 2

KeyNames == {"a"}
Values == {"1", "2"}
InitIds == 1..MaxInFlight
RotIds == 1..MaxInFlight
SyncIds == 1..MaxInFlight
IVs == 1..NumIVs

(* ------------------------- values and helpers ------------------------- *)
NoKey == 0
EmptyMap == [k \in {} |-> "1"]
Nothing == <<>>
Some(x) == <<x>>

\* Map.set / Map.delete on the in-memory Map<string,string>
MapSet(m, k, v) == [x \in (DOMAIN m) \cup {k} |-> IF x = k THEN v ELSE m[x]]
MapDelete(m, k) == [x \in (DOMAIN m) \ {k} |-> m[x]]

\* a serialisation that would lose the entries
Stringify_LosesEntries(m) == {}

\* JSON.stringify(Object.fromEntries(map)): the JSON object as the set of
\* its members; JSON.parse, Object.entries and new Map are the way back.
Stringify(m) == {<<k, m[k]>> : k \in DOMAIN m}
ParseMap(json) ==
  [k \in {p[1] : p \in json} |-> (CHOOSE p \in json : p[1] = k)[2]]

\* Aes.encrypt / Aes.decrypt (aes-256-cbc): the ciphertext opens only under
\* the key and iv it was made with; anything else is an error.
AesEncrypt(data, key, iv) == [key |-> key, iv |-> iv, pt |-> data]
AesDecrypt(ct, key, iv) ==
  IF ct.key = key /\ ct.iv = iv THEN Some(ct.pt) ELSE Nothing

\* an encryptData that would not put the iv it drew into the envelope
encryptData_ForgetsIv(data, key, iv) ==
  [iv |-> 1, ciphertext |-> AesEncrypt(data, key, iv)]

\* encryptData: the envelope {iv, ciphertext}
encryptData(data, key, iv) ==
  [iv |-> iv, ciphertext |-> AesEncrypt(data, key, iv)]

(* ------------------------------- state -------------------------------- *)
VARIABLES
  platform,          \* Platform.OS: "native" or "web"
  memory,            \* this.memory
  encryptionKey,     \* this.encryptionKey (NoKey = null)
  biometricsEnabled, \* this.biometricsEnabled
  blob,              \* AsyncStorage[encryptedDataKey]: Nothing or Some(envelope)
  pref,              \* AsyncStorage[biometricsPreferenceKey]: "null", "true", "false"
  keystore,          \* the keychain entry: Nothing or Some([key, bio])
  init,              \* initialize() calls in flight
  rot,               \* setEnableBiometrics() calls in flight (history: key0,
                     \* bio0, the key and flag at the call; reread, the
                     \* re-read of the key has resolved)
  sync,              \* syncToStorage() calls in flight (history: mem, the map
                     \* in memory when the call ran; after, the syncs in
                     \* flight when it ran; stale, a sync that ran later has
                     \* written)
  nextKey,           \* keys generated so far (key ids are fresh numbers)
  restarts,          \* process restarts so far
  calls,             \* calls of the public API by this process so far
  last,              \* history: how the latest initialize / setEnableBiometrics settled
  loaded,            \* history: the latest settled load of this process succeeded
  expect             \* history: the map a fresh initialize() is to load (P1, P2)

vars == <<platform, memory, encryptionKey, biometricsEnabled, blob, pref,
          keystore, init, rot, sync, nextKey, restarts, calls, last, loaded,
          expect>>

IdleInit == [pc |-> "idle", key |-> NoKey, bio |-> FALSE, env |-> Nothing]
IdleRot == [pc |-> "idle", enabled |-> FALSE, data |-> {}, newKey |-> NoKey,
            env |-> Nothing, key0 |-> NoKey, bio0 |-> FALSE, reread |-> FALSE]
IdleSync == [pc |-> "idle", data |-> {}, key |-> NoKey, mem |-> EmptyMap,
             after |-> {}, stale |-> FALSE]
NoExpect == [kind |-> "none", map |-> EmptyMap]

Init ==
  /\ platform \in {"native", "web"}
  /\ memory = EmptyMap
  /\ encryptionKey = NoKey
  /\ biometricsEnabled = FALSE
  /\ blob = Nothing
  /\ pref = "null"
  /\ keystore = Nothing
  /\ init = [i \in InitIds |-> IdleInit]
  /\ rot = [r \in RotIds |-> IdleRot]
  /\ sync = [s \in SyncIds |-> IdleSync]
  /\ nextKey = 0
  /\ restarts = 0
  /\ calls = 0
  /\ last = "none"
  /\ loaded = FALSE
  /\ expect = NoExpect

InitRunning(i) == init[i].pc # "idle"
RotRunning(r) == rot[r].pc # "idle"
SyncRunning(s) == sync[s].pc # "idle"
InFlight ==
  Cardinality({i \in InitIds : InitRunning(i)})
  + Cardinality({r \in RotIds : RotRunning(r)})
  + Cardinality({s \in SyncIds : SyncRunning(s)})
Quiescent == InFlight = 0

FreeInit == CHOOSE i \in InitIds :
  ~InitRunning(i) /\ \A j \in InitIds : j < i => InitRunning(j)
FreeRot == CHOOSE r \in RotIds :
  ~RotRunning(r) /\ \A q \in RotIds : q < r => RotRunning(q)
FreeSync == CHOOSE s \in SyncIds :
  ~SyncRunning(s) /\ \A t \in SyncIds : t < s => SyncRunning(t)

\* what the guards of lines 217 and 329 take for a usable engine
Ready == platform # "web" /\ encryptionKey # NoKey

\* one more call of the public API by the application
Called ==
  /\ calls < (IF restarts = 0 THEN MaxCalls ELSE MaxCallsAfterRestart)
  /\ calls' = calls + 1

(* ----------------------- the synchronous facade ----------------------- *)
getItem(k) == IF k \in DOMAIN memory THEN Some(memory[k]) ELSE Nothing

\* a syncToStorage that would not look at the platform or the key
syncToStorage_Unguarded(mem) ==
  /\ InFlight < MaxInFlight
  /\ sync' = [sync EXCEPT ![FreeSync] =
                [pc |-> "write", data |-> Stringify(mem),
                 key |-> encryptionKey, mem |-> mem,
                 after |-> {s \in SyncIds : SyncRunning(s)}, stale |-> FALSE]]

\* syncToStorage up to its first await: the guard, the snapshot of the map
\* and the read of this.encryptionKey (the argument of encryptData)
syncToStorage(mem) ==
  IF platform = "web" \/ encryptionKey = NoKey
  THEN sync' = sync
  ELSE /\ InFlight < MaxInFlight
       /\ sync' = [sync EXCEPT ![FreeSync] =
                     [pc |-> "write", data |-> Stringify(mem),
                      key |-> encryptionKey, mem |-> mem,
                      after |-> {s \in SyncIds : SyncRunning(s)},
                      stale |-> FALSE]]

\* a mutation ends what a rotation or a restart has fixed as the map to load
Mutated == IF expect.kind = "sync" THEN expect ELSE NoExpect

setItem(k, v) ==
  /\ Called
  /\ memory' = MapSet(memory, k, v)
  /\ syncToStorage(memory')
  /\ expect' = Mutated
  /\ UNCHANGED <<platform, encryptionKey, biometricsEnabled, blob, pref,
                 keystore, init, rot, nextKey, restarts, last, loaded>>

removeItem(k) ==
  /\ Called
  /\ IF k \in DOMAIN memory
     THEN /\ memory' = MapDelete(memory, k)
          /\ syncToStorage(memory')
          /\ expect' = Mutated
     ELSE UNCHANGED <<memory, sync, expect>>
  /\ UNCHANGED <<platform, encryptionKey, biometricsEnabled, blob, pref,
                 keystore, init, rot, nextKey, restarts, last, loaded>>

(* ------------------------- write-behind sync -------------------------- *)
\* sync s settles: it leaves the records of the others (history), and when
\* it wrote, the syncs that were in flight when it ran have been overtaken
SyncSettles(s, wrote) ==
  sync' = [t \in SyncIds |->
             IF t = s \/ ~SyncRunning(t) THEN IdleSync
             ELSE [sync[t] EXCEPT
                     !.after = @ \ {s},
                     !.stale = @ \/ (wrote /\ t \in sync[s].after)]]

\* encryptData (Aes.randomKey(16), Aes.encrypt) and then
\* AsyncStorage.setItem(encryptedDataKey, encryptedData) resolve: the two
\* awaits touch nothing but the call's own data, and are one step here
SyncWrite(s) ==
  /\ sync[s].pc = "write"
  /\ \E iv \in IVs :
       blob' = Some(encryptData(sync[s].data, sync[s].key, iv))
  /\ SyncSettles(s, TRUE)
  /\ expect' = IF expect.kind \in {"rotating", "rot"} THEN expect
               ELSE [kind |-> "sync", map |-> sync[s].mem]
  /\ UNCHANGED <<platform, memory, encryptionKey, biometricsEnabled, pref,
                 keystore, init, rot, nextKey, restarts, calls, last, loaded>>

\* a catch that would drop the key on a failed sync
syncCatch_DropsKey ==
  /\ encryptionKey' = NoKey
  /\ UNCHANGED <<memory, last>>

\* catch (error) of syncToStorage: logged, nothing else
syncCatch == UNCHANGED <<memory, encryptionKey, last>>

\* the cipher or the blob store rejects
SyncFail(s) ==
  /\ sync[s].pc = "write"
  /\ SyncSettles(s, FALSE)
  /\ syncCatch
  /\ UNCHANGED <<platform, biometricsEnabled, blob, pref, keystore, init,
                 rot, nextKey, restarts, calls, loaded, expect>>

(* ----------------------------- initialize ----------------------------- *)
\* the prompt of a keychain access can be declined when the access is made,
\* or the entry is held, under the biometric policy
MayPrompt(policy) == policy \/ (keystore # Nothing /\ keystore[1].bio)

\* a cancel branch that would keep the cached map
catchUserCanceled_KeepsMap ==
  /\ encryptionKey' = NoKey
  /\ UNCHANGED <<memory, blob, pref, keystore>>

\* a cancel branch that would also wipe the persisted blob
catchUserCanceled_WipesBlob ==
  /\ memory' = EmptyMap
  /\ encryptionKey' = NoKey
  /\ blob' = Nothing
  /\ UNCHANGED <<pref, keystore>>

\* catch (error) of initialize, error.message.includes("User canceled")
catchUserCanceled ==
  /\ memory' = EmptyMap
  /\ encryptionKey' = NoKey
  /\ UNCHANGED <<blob, pref, keystore>>

\* catch (error) of initialize, any other error: logged only
catchOtherError == UNCHANGED <<memory, encryptionKey>>

InitEnd(i, outcome) ==
  /\ init' = [init EXCEPT ![i] = IdleInit]
  /\ last' = outcome
  /\ loaded' = IF outcome = "init_done" THEN TRUE
               ELSE IF outcome = "init_canceled" THEN FALSE ELSE loaded

\* initialize() is called: the web guard, then loadBiometricsPreference
\* awaits AsyncStorage.getItem(biometricsPreferenceKey)
InitCall ==
  /\ Called
  /\ IF platform = "web"
     THEN /\ last' = "init_web"
          /\ UNCHANGED <<init, loaded, expect>>
     ELSE /\ InFlight < MaxInFlight
          /\ init' = [init EXCEPT ![FreeInit] = [IdleInit EXCEPT !.pc = "pref"]]
          /\ expect' = IF expect.kind \in {"rotating", "rot"}
                       THEN NoExpect ELSE expect
          /\ UNCHANGED <<last, loaded>>
  /\ UNCHANGED <<platform, memory, encryptionKey, biometricsEnabled, blob,
                 pref, keystore, rot, sync, nextKey, restarts>>

\* loadBiometricsPreference: the value read, or the read threw and was logged
loadBiometricsPreference(ok) ==
  IF ok THEN biometricsEnabled' = (pref = "true")
        ELSE biometricsEnabled' = biometricsEnabled

\* loadBiometricsPreference resumes; initialize goes on to
\* getEncryptionKeyFromKeychain, whose options are built from
\* this.biometricsEnabled
InitPrefRead(i) ==
  /\ init[i].pc = "pref"
  /\ \E ok \in BOOLEAN : loadBiometricsPreference(ok)
  /\ init' = [init EXCEPT ![i] =
                [IdleInit EXCEPT !.pc = "keyread", !.bio = biometricsEnabled']]
  /\ UNCHANGED <<platform, memory, encryptionKey, blob, pref, keystore,
                 rot, sync, nextKey, restarts, calls, last, loaded, expect>>

\* Keychain.getGenericPassword resolves with credentials: the key is
\* assigned (line 180) and AsyncStorage.getItem(encryptedDataKey) awaited
InitKeyFound(i) ==
  /\ init[i].pc = "keyread"
  /\ keystore # Nothing
  /\ encryptionKey' = keystore[1].key
  /\ init' = [init EXCEPT ![i] = [IdleInit EXCEPT !.pc = "blobread"]]
  /\ UNCHANGED <<platform, memory, biometricsEnabled, blob, pref, keystore,
                 rot, sync, nextKey, restarts, calls, last, loaded, expect>>

\* Keychain.getGenericPassword resolves with false: generateKey is awaited
InitKeyMissing(i) ==
  /\ init[i].pc = "keyread"
  /\ keystore = Nothing
  /\ init' = [init EXCEPT ![i] = [IdleInit EXCEPT !.pc = "gen"]]
  /\ UNCHANGED <<platform, memory, encryptionKey, biometricsEnabled, blob,
                 pref, keystore, rot, sync, nextKey, restarts, calls, last,
                 loaded, expect>>

\* generateKey resolves; saveEncryptionKeyToKeychain(key) is called with
\* its default, biometrics = this.biometricsEnabled
InitGenerateKey(i) ==
  /\ init[i].pc = "gen"
  /\ nextKey < MaxKeys
  /\ nextKey' = nextKey + 1
  /\ init' = [init EXCEPT ![i] =
                [IdleInit EXCEPT !.pc = "save", !.key = nextKey + 1,
                                 !.bio = biometricsEnabled]]
  /\ UNCHANGED <<platform, memory, encryptionKey, biometricsEnabled, blob,
                 pref, keystore, rot, sync, restarts, calls, last, loaded, expect>>

\* Keychain.setGenericPassword resolves: the key is assigned (line 180) and
\* AsyncStorage.getItem(encryptedDataKey) awaited
InitSaveKey(i) ==
  /\ init[i].pc = "save"
  /\ keystore' = Some([key |-> init[i].key, bio |-> init[i].bio])
  /\ encryptionKey' = init[i].key
  /\ init' = [init EXCEPT ![i] = [IdleInit EXCEPT !.pc = "blobread"]]
  /\ UNCHANGED <<platform, memory, biometricsEnabled, blob, pref, rot,
                 sync, nextKey, restarts, calls, last, loaded, expect>>

\* a decryptData that would not check for the key
keyNotAvailable_Unchecked == FALSE

\* decryptData, if (!this.encryptionKey): throws "Decryption failed:
\* Encryption key is not available."
keyNotAvailable == encryptionKey = NoKey

\* AsyncStorage.getItem(encryptedDataKey) resolves.  No blob: initialize is
\* done.  A blob: decryptData checks this.encryptionKey (and throws without
\* one), then awaits Aes.decrypt with it.
InitBlobRead(i) ==
  /\ init[i].pc = "blobread"
  /\ IF blob = Nothing
     THEN InitEnd(i, "init_done")
     ELSE IF keyNotAvailable
          THEN InitEnd(i, "init_nokey")
          ELSE /\ init' = [init EXCEPT ![i] =
                        [IdleInit EXCEPT !.pc = "decrypt",
                                         !.key = encryptionKey, !.env = blob]]
               /\ UNCHANGED <<last, loaded>>
  /\ catchOtherError
  /\ UNCHANGED <<platform, biometricsEnabled, blob, pref, keystore, rot,
                 sync, nextKey, restarts, calls, expect>>

\* Aes.decrypt resolves or rejects; JSON.parse; this.memory = new Map(...)
InitDecrypt(i) ==
  /\ init[i].pc = "decrypt"
  /\ LET r == AesDecrypt(init[i].env[1].ciphertext, init[i].key,
                         init[i].env[1].iv)
     IN  IF r = Nothing
         THEN InitEnd(i, "init_undecryptable") /\ catchOtherError
         ELSE /\ memory' = ParseMap(r[1])
              /\ InitEnd(i, "init_done")
              /\ UNCHANGED encryptionKey
  /\ UNCHANGED <<platform, biometricsEnabled, blob, pref, keystore, rot,
                 sync, nextKey, restarts, calls, expect>>

\* the user declines the prompt of a keychain access
InitCancel(i) ==
  /\ init[i].pc \in {"keyread", "save"}
  /\ MayPrompt(init[i].bio)
  /\ catchUserCanceled
  /\ InitEnd(i, "init_canceled")
  /\ UNCHANGED <<platform, biometricsEnabled, rot, sync, nextKey, restarts, calls,
                 expect>>

\* any other awaited call of the try block rejects
InitFail(i) ==
  /\ init[i].pc \in {"keyread", "gen", "save", "blobread", "decrypt"}
  /\ catchOtherError
  /\ InitEnd(i, "init_failed")
  /\ UNCHANGED <<platform, biometricsEnabled, blob, pref, keystore, rot,
                 sync, nextKey, restarts, calls, expect>>

(* ------------------------- setEnableBiometrics ------------------------ *)
RotEnd(r, outcome) ==
  /\ rot' = [rot EXCEPT ![r] = IdleRot]
  /\ last' = outcome

\* dataToReEncrypt = Object.fromEntries(this.memory), stringified at line 232
dataToReEncrypt == Stringify(memory)

\* a setEnableBiometrics that would not re-read the key in biometric mode
RotCall_SkipsReread(enabled) ==
  IF platform = "web" \/ encryptionKey = NoKey
  THEN /\ last' = "rot_noop"
       /\ UNCHANGED <<rot, expect>>
  ELSE /\ InFlight < MaxInFlight
       /\ rot' = [rot EXCEPT ![FreeRot] =
            [IdleRot EXCEPT !.pc = "enc",
                            !.enabled = enabled,
                            !.data = dataToReEncrypt,
                            !.key0 = encryptionKey,
                            !.bio0 = biometricsEnabled]]
       /\ expect' = IF \A i \in InitIds : ~InitRunning(i)
                       /\ \A r \in RotIds : ~RotRunning(r)
                    THEN [kind |-> "rotating", map |-> memory]
                    ELSE NoExpect
       /\ UNCHANGED last

\* a setEnableBiometrics that would not look at the platform or the key
RotCall_Unguarded(enabled) ==
  IF FALSE
  THEN /\ last' = "rot_noop"
       /\ UNCHANGED <<rot, expect>>
  ELSE /\ InFlight < MaxInFlight
       /\ rot' = [rot EXCEPT ![FreeRot] =
            [IdleRot EXCEPT !.pc = IF biometricsEnabled THEN "reauth" ELSE "enc",
                            !.enabled = enabled,
                            !.data = IF biometricsEnabled THEN {} ELSE dataToReEncrypt,
                            !.key0 = encryptionKey,
                            !.bio0 = biometricsEnabled]]
       /\ expect' = IF \A i \in InitIds : ~InitRunning(i)
                       /\ \A r \in RotIds : ~RotRunning(r)
                    THEN [kind |-> "rotating", map |-> memory]
                    ELSE NoExpect
       /\ UNCHANGED last

\* setEnableBiometrics(enabled) is called: the guard; in biometric mode the
\* key is re-read first, otherwise the map is snapshotted and generateKey
\* awaited
RotCall(enabled) ==
  IF platform = "web" \/ encryptionKey = NoKey
  THEN /\ last' = "rot_noop"
       /\ UNCHANGED <<rot, expect>>
  ELSE /\ InFlight < MaxInFlight
       /\ rot' = [rot EXCEPT ![FreeRot] =
            [IdleRot EXCEPT !.pc = IF biometricsEnabled THEN "reauth" ELSE "enc",
                            !.enabled = enabled,
                            !.data = IF biometricsEnabled THEN {} ELSE dataToReEncrypt,
                            !.key0 = encryptionKey,
                            !.bio0 = biometricsEnabled]]
       /\ expect' = IF \A i \in InitIds : ~InitRunning(i)
                       /\ \A r \in RotIds : ~RotRunning(r)
                    THEN [kind |-> "rotating", map |-> memory]
                    ELSE NoExpect
       /\ UNCHANGED last

RotCalled(enabled) ==
  /\ Called
  /\ RotCall(enabled)
  /\ UNCHANGED <<platform, memory, encryptionKey, biometricsEnabled, blob,
                 pref, keystore, init, sync, nextKey, restarts, loaded>>

\* getEncryptionKeyFromKeychain resolves (its result is not looked at);
\* the map is snapshotted and generateKey awaited
RotReauth(r) ==
  /\ rot[r].pc = "reauth"
  /\ rot' = [rot EXCEPT ![r].pc = "enc", ![r].data = dataToReEncrypt,
                         ![r].reread = TRUE]
  /\ UNCHANGED <<platform, memory, encryptionKey, biometricsEnabled, blob,
                 pref, keystore, init, sync, nextKey, restarts, calls, last,
                 loaded, expect>>

\* generateKey, then encryptData(JSON.stringify(dataToReEncrypt), newKey)
\* resolve: the awaits touch nothing but the call's own data, and are one
\* step here
RotEncrypt(r) ==
  /\ rot[r].pc = "enc"
  /\ nextKey < MaxKeys
  /\ nextKey' = nextKey + 1
  /\ \E iv \in IVs :
       rot' = [rot EXCEPT ![r].pc = "wblob", ![r].data = {},
                 ![r].newKey = nextKey + 1,
                 ![r].env = Some(encryptData(rot[r].data, nextKey + 1, iv))]
  /\ UNCHANGED <<platform, memory, encryptionKey, biometricsEnabled, blob,
                 pref, keystore, init, sync, restarts, calls, last, loaded,
                 expect>>

\* AsyncStorage.setItem(encryptedDataKey, encryptedData) resolves
RotWriteBlob(r) ==
  /\ rot[r].pc = "wblob"
  /\ blob' = rot[r].env
  /\ rot' = [rot EXCEPT ![r].pc = "wkey", ![r].env = Nothing]
  /\ UNCHANGED <<platform, memory, encryptionKey, biometricsEnabled, pref,
                 keystore, init, sync, nextKey, restarts, calls, last, loaded,
                 expect>>

\* saveEncryptionKeyToKeychain(newKey, enabled) resolves; the key and the
\* flag are assigned (lines 242-243) and the preference write is awaited
RotSaveKey(r) ==
  /\ rot[r].pc = "wkey"
  /\ keystore' = Some([key |-> rot[r].newKey, bio |-> rot[r].enabled])
  /\ encryptionKey' = rot[r].newKey
  /\ biometricsEnabled' = rot[r].enabled
  /\ rot' = [rot EXCEPT ![r].pc = "wpref"]
  /\ UNCHANGED <<platform, memory, blob, pref, init, sync, nextKey,
                 restarts, calls, last, loaded, expect>>

\* AsyncStorage.setItem(biometricsPreferenceKey, String(enabled)) resolves:
\* setEnableBiometrics resolves
RotWritePref(r) ==
  /\ rot[r].pc = "wpref"
  /\ pref' = IF rot[r].enabled THEN "true" ELSE "false"
  /\ RotEnd(r, "rot_ok")
  /\ expect' = IF expect.kind = "rotating"
               THEN [expect EXCEPT !.kind = "rot"] ELSE expect
  /\ UNCHANGED <<platform, memory, encryptionKey, biometricsEnabled, blob,
                 keystore, init, sync, nextKey, restarts, calls, loaded>>

\* a catch that would put back the key the engine held at the call
RotFail_RestoresKey(r) ==
  /\ RotRunning(r)
  /\ RotEnd(r, "rot_rejected")
  /\ encryptionKey' = rot[r].key0
  /\ expect' = IF expect.kind = "rotating" THEN NoExpect ELSE expect
  /\ UNCHANGED <<platform, memory, biometricsEnabled, blob, pref, keystore,
                 init, sync, nextKey, restarts, calls, loaded>>

\* an awaited call of the try block rejects, or the prompt of the re-read
\* is declined: logged and rethrown to the caller (lines 252-258)
RotFail(r) ==
  /\ RotRunning(r)
  /\ RotEnd(r, "rot_rejected")
  /\ expect' = IF expect.kind = "rotating" THEN NoExpect ELSE expect
  /\ UNCHANGED <<platform, memory, encryptionKey, biometricsEnabled, blob,
                 pref, keystore, init, sync, nextKey, restarts, calls, loaded>>

(* ------------------------------ restart ------------------------------- *)
\* the process dies and a fresh KeychainSyncedStore is constructed over the
\* same AsyncStorage and keychain (field initialisers, lines 96-100)
Restart ==
  /\ restarts < MaxRestarts
  /\ restarts' = restarts + 1
  /\ memory' = EmptyMap
  /\ encryptionKey' = NoKey
  /\ biometricsEnabled' = FALSE
  /\ init' = [i \in InitIds |-> IdleInit]
  /\ rot' = [r \in RotIds |-> IdleRot]
  /\ sync' = [s \in SyncIds |-> IdleSync]
  /\ last' = "none"
  /\ loaded' = FALSE
  /\ expect' = IF ~Quiescent THEN NoExpect
               ELSE IF expect.kind \in {"sync", "sync_fresh"}
                    THEN [expect EXCEPT !.kind = "sync_fresh"]
               ELSE IF expect.kind \in {"rot", "rot_fresh"}
                    THEN [expect EXCEPT !.kind = "rot_fresh"]
               ELSE NoExpect
  /\ calls' = 0
  /\ UNCHANGED <<platform, blob, pref, keystore, nextKey>>

Next ==
  \/ \E k \in KeyNames, v \in Values : setItem(k, v)
  \/ \E k \in KeyNames : removeItem(k)
  \/ \E s \in SyncIds : SyncWrite(s)
  \/ \E s \in SyncIds : SyncFail(s)
  \/ InitCall
  \/ \E i \in InitIds : InitPrefRead(i)
  \/ \E i \in InitIds : InitKeyFound(i)
  \/ \E i \in InitIds : InitKeyMissing(i)
  \/ \E i \in InitIds : InitGenerateKey(i)
  \/ \E i \in InitIds : InitSaveKey(i)
  \/ \E i \in InitIds : InitBlobRead(i)
  \/ \E i \in InitIds : InitDecrypt(i)
  \/ \E i \in InitIds : InitCancel(i)
  \/ \E i \in InitIds : InitFail(i)
  \/ \E e \in BOOLEAN : RotCalled(e)
  \/ \E r \in RotIds : RotReauth(r)
  \/ \E r \in RotIds : RotEncrypt(r)
  \/ \E r \in RotIds : RotWriteBlob(r)
  \/ \E r \in RotIds : RotSaveKey(r)
  \/ \E r \in RotIds : RotWritePref(r)
  \/ \E r \in RotIds : RotFail(r)
  \/ Restart

Spec == Init /\ [][Next]_vars
(* ------------------------------ claims -------------------------------- *)
NoInitRunning == \A i \in InitIds : ~InitRunning(i)
NoRotRunning == \A r \in RotIds : ~RotRunning(r)
NoSyncRunning == \A s \in SyncIds : ~SyncRunning(s)

\* the key the persisted blob was encrypted under
BlobKey == blob[1].ciphertext.key

\* the persisted blob, if any, opens under the key held by the keychain
DurableConsistent ==
  blob # Nothing => (keystore # Nothing /\ BlobKey = keystore[1].key)

\* a rotation has stored its new key and no later key has been stored
RotationStoredKey ==
  \/ \E r \in RotIds :
       /\ rot[r].pc = "wpref"
       /\ keystore = Some([key |-> rot[r].newKey, bio |-> rot[r].enabled])
  \/ last = "rot_ok" /\ NoRotRunning /\ NoInitRunning

\* the latest initialize() settled, and no collaborator call of it failed
\* or was declined
LoadSettled == last \in {"init_done", "init_undecryptable", "init_nokey"}

\* C1: once a rotation has stored its new key in the keychain, every blob
\* written by a background sync is encrypted under that key.
C1_SyncNeverWritesReplacedKey ==
  [][\A s \in SyncIds :
       (SyncWrite(s) /\ RotationStoredKey)
         => blob'[1].ciphertext.key = keystore[1].key]_vars

\* C2: a crash while one setEnableBiometrics is in flight (and nothing else
\* is) leaves a persisted blob that opens under the key in the keychain.
C2_CrashDuringRotationConsistent ==
  [][(Restart /\ NoSyncRunning /\ NoInitRunning
        /\ Cardinality({r \in RotIds : RotRunning(r)}) = 1)
       => DurableConsistent']_vars

C4_P2_RotationPreservesData ==
  (expect.kind = "rot_fresh" /\ LoadSettled)
    => (last = "init_done" /\ memory = expect.map
        /\ encryptionKey = keystore[1].key)

\* C5 (P4): when the prompt of initialize()'s keychain access is declined,
\* initialize() returns with an empty map (getItem gives nothing for every
\* key), no encryption key, and an engine that is not Ready.
C5_P4_CancelClearsEngine ==
  [][\A i \in InitIds :
       InitCancel(i)
         => /\ memory' = EmptyMap
            /\ \A k \in KeyNames : getItem(k)' = Nothing
            /\ encryptionKey' = NoKey
            /\ ~Ready']_vars
C5_Witness ==
  /\ last = "init_canceled" /\ NoInitRunning /\ restarts = 0
  /\ memory = EmptyMap /\ encryptionKey = NoKey
  /\ blob # Nothing /\ blob[1].ciphertext.pt # {}

\* C6: when an awaited step of setEnableBiometrics rejects (and nothing
\* else ran beside it), the encryption key and the biometrics flag of the
\* engine are what they were when it was called.
C6_FailedRotationLeavesEngine ==
  [][\A r \in RotIds :
       (RotFail(r) /\ NoInitRunning
          /\ Cardinality({q \in RotIds : RotRunning(q)}) = 1)
         => /\ encryptionKey' = rot[r].key0
            /\ biometricsEnabled' = rot[r].bio0]_vars

\* C7: no step of an initialize() that ends with a declined prompt (the
\* call, the preference read, the missing key, the key generation, the
\* cancel branch) changes the persisted blob, the keychain entry or the
\* preference flag.
C7_CancelWritesNothingDurable ==
  [][(\/ InitCall
      \/ \E i \in InitIds :
           \/ InitPrefRead(i) \/ InitKeyMissing(i)
           \/ InitGenerateKey(i) \/ InitCancel(i))
       => UNCHANGED <<blob, pref, keystore>>]_vars
C7_Witness ==
  /\ last = "init_canceled" /\ NoInitRunning
  /\ blob # Nothing /\ keystore # Nothing /\ keystore[1].bio /\ pref = "true"

\* C8: setItem and removeItem change the map and return with nothing
\* persisted yet (a sync they start is still to write); a sync that fails
\* signals nothing and leaves the map and the encryption key as they were.
C8_FacadeNeverFailsNorWaits ==
  [][/\ ((\E k \in KeyNames, v \in Values : setItem(k, v))
           \/ (\E k \in KeyNames : removeItem(k)))
          => /\ UNCHANGED <<blob, pref, keystore, encryptionKey, last>>
             /\ \A s \in SyncIds :
                  sync'[s] # sync[s]
                    => sync'[s].pc = "write" /\ sync'[s].mem = memory'
     /\ (\E s \in SyncIds : SyncFail(s))
          => UNCHANGED <<memory, encryptionKey, last>>]_vars
C8_Witness ==
  /\ Ready /\ memory # EmptyMap /\ blob = Nothing
  /\ \E s \in SyncIds : sync[s].pc = "write" /\ sync[s].mem = memory

\* an initialize() of this process ended on a failure other than a
\* declined prompt, and none has succeeded
InitFailedOnly ==
  /\ last \in {"init_failed", "init_undecryptable", "init_nokey"}
  /\ ~loaded /\ NoInitRunning /\ NoRotRunning

\* C9: after an initialize() that ended on a failure other than a declined
\* prompt, the engine is not Ready.
C9_FailedInitNotReady == InitFailedOnly => ~Ready

\* C10: setEnableBiometrics called after a failed initialize() starts no
\* rotation.
C10_RotationNoOpWhenNotReady ==
  [][((\E e \in BOOLEAN : RotCalled(e)) /\ InitFailedOnly)
       => (rot' = rot /\ last' = "rot_noop")]_vars

\* C11: a setItem or removeItem on web, or while the engine holds no key,
\* starts no sync and leaves the persisted blob, the keychain entry and the
\* preference flag as they were.
C11_SyncNoOpWithoutKey ==
  [][(/\ platform = "web" \/ encryptionKey = NoKey
      /\ \/ \E k \in KeyNames, v \in Values : setItem(k, v)
         \/ \E k \in KeyNames : removeItem(k))
       => (sync' = sync /\ UNCHANGED <<blob, pref, keystore>>)]_vars
C11_Witness ==
  /\ platform = "native" /\ last = "init_canceled" /\ encryptionKey = NoKey
  /\ memory # EmptyMap /\ NoSyncRunning /\ NoInitRunning
  /\ blob # Nothing /\ ParseMap(blob[1].ciphertext.pt) # memory

\* C12 (P5): decryptData reached while the engine holds no key (another
\* initialize() has cleared it since line 180) throws its key-not-available
\* error: initialize() ends on it with the map untouched, and no Aes.decrypt
\* is ever under way without a key.
C12_P5_DecryptWithoutKeyThrows ==
  /\ [][\A i \in InitIds :
          (InitBlobRead(i) /\ blob # Nothing /\ encryptionKey = NoKey)
            => /\ last' = "init_nokey"
               /\ init'[i].pc = "idle"
               /\ memory' = memory]_vars
  /\ [](\A i \in InitIds : init[i].pc = "decrypt" => init[i].key # NoKey)
C12_Witness ==
  /\ last = "init_nokey" /\ NoInitRunning
  /\ blob # Nothing /\ encryptionKey = NoKey /\ keystore # Nothing

\* the map the persisted blob decrypts to under the key the engine holds
\* (Nothing when there is no blob or it does not open)
BlobMap ==
  IF blob = Nothing THEN Nothing
  ELSE LET r == AesDecrypt(blob[1].ciphertext, encryptionKey, blob[1].iv)
       IN  IF r = Nothing THEN Nothing ELSE Some(ParseMap(r[1]))

\* C13 (P6): every sync that writes while the map and the key are still
\* what they were when it ran (no mutation, no key change since) persists
\* a blob that decrypts under the engine's key to that same map, whatever
\* iv it drew and however many such syncs wrote before it.
C13_P6_RedundantSyncsIdempotent ==
  [][\A s \in SyncIds :
       (SyncWrite(s) /\ sync[s].mem = memory /\ sync[s].key = encryptionKey)
         => BlobMap' = Some(memory)]_vars
C13_Witness ==
  /\ restarts = 0 /\ nextKey = 1 /\ calls = 3 /\ memory # EmptyMap
  /\ BlobMap = Some(memory) /\ blob[1].iv = 2
  /\ sync[1].pc = "idle"
  /\ sync[2].pc = "write" /\ sync[2].mem = memory
  /\ sync[2].key = encryptionKey

\* the steps of a rotation from its snapshot of the map to the assignment
\* of the new key (lines 229-243)
RotSnapshotToCommit(r) == rot[r].pc \in {"enc", "wblob", "wkey"}

\* C14: no sync is between its snapshot and its blob write while a rotation
\* is between its snapshot and its commit.
C14_RotationExcludesSync ==
  \A s \in SyncIds, r \in RotIds : ~(SyncRunning(s) /\ RotSnapshotToCommit(r))

\* C16: with one key only ever generated (no rotation), a sync that writes
\* after a sync that ran later has already written leaves the persisted
\* map as that later sync made it.
C16_LaterSyncSupersedes ==
  [][\A s \in SyncIds :
       (SyncWrite(s) /\ sync[s].stale /\ nextKey = 1)
         => BlobMap' = BlobMap]_vars

\* C15: with no initialize() in flight, the engine holds a key exactly
\* when its latest settled load succeeded.
C15_KeyIffReady == NoInitRunning => ((encryptionKey # NoKey) <=> loaded)

\* a rotation called in biometric mode has gone past its re-read of the key
PastReread(r) == rot[r].bio0 /\ rot[r].pc \in {"enc", "wblob", "wkey", "wpref"}

\* C17: a rotation called in biometric mode generates no key and writes
\* nothing before its re-read of the existing key has resolved, and one
\* that fails at the re-read leaves blob, keychain entry, preference flag,
\* encryption key and biometrics flag as they were.
C17_BiometricRereadFirst ==
  /\ [](\A r \in RotIds : PastReread(r) => rot[r].reread)
  /\ [][\A r \in RotIds :
          (RotFail(r) /\ rot[r].pc = "reauth")
            => /\ UNCHANGED <<blob, keystore, pref, encryptionKey,
                              biometricsEnabled>>
               /\ last' = "rot_rejected"]_vars
C17_Witness ==
  \E r \in RotIds :
    /\ rot[r].bio0 /\ rot[r].reread /\ rot[r].pc = "wpref"
    /\ keystore = Some([key |-> rot[r].newKey, bio |-> rot[r].enabled])

\* the preference read of initialize() i rejects (the catch of
\* loadBiometricsPreference logs) and initialize() goes on to the key read
PrefReadFails(i) == InitPrefRead(i) /\ loadBiometricsPreference(FALSE)

\* C18: when the preference read of initialize() fails, the key read that
\* follows is made under the passcode-only policy.
C18_PrefReadFailureDefaults ==
  [][\A i \in InitIds : PrefReadFails(i) => ~init'[i].bio]_vars

\* C19 (as stated): once a declined prompt has cleared the key, no step
\* makes it non-null again.
C19_DegradedTerminal ==
  [][(last = "init_canceled" /\ encryptionKey = NoKey)
       => encryptionKey' = NoKey]_vars

\* C19 (amended): an engine without a key gets one only by an initialize()
\* reading the key from the keychain or storing a generated one, or by a
\* setEnableBiometrics that was called while the engine still held a key
\* and commits after it; nothing called on the engine without a key, other
\* than initialize(), gives it one.
C19_DegradedUntilInitialize ==
  [][(encryptionKey = NoKey /\ encryptionKey' # NoKey)
       => \/ \E i \in InitIds : InitKeyFound(i) \/ InitSaveKey(i)
          \/ \E r \in RotIds : RotSaveKey(r) /\ rot[r].key0 # NoKey]_vars
C19_Witness ==
  /\ last = "init_canceled" /\ encryptionKey # NoKey /\ NoRotRunning
  /\ \E i \in InitIds : init[i].pc = "blobread"

\* C20: within one process, an engine whose load succeeded and which holds
\* a key keeps holding a key.
C20_ReadyTerminal ==
  [][(loaded /\ encryptionKey # NoKey /\ restarts' = restarts)
       => encryptionKey' # NoKey]_vars

StoredPreference == pref = "true"

\* C22: with nothing in flight (a crash leaves nothing in flight), the
\* persisted preference is the policy the key in the keychain was stored
\* under.
C22_PreferenceEqualsStoredPolicy ==
  (Quiescent /\ keystore # Nothing) => (keystore[1].bio = StoredPreference)

\* C23: in a process that has made one initialize() and one setItem, whose
\* sync has written, and with nothing left in flight, the map in memory is
\* the map the persisted blob decrypts to.
C23_SetDuringInitializeKept ==
  (/\ Quiescent /\ restarts = 1 /\ calls = 2 /\ nextKey = 1
   /\ last = "init_done" /\ expect.kind = "sync")
    => BlobMap = Some(memory)

\* C24: in a process started over a persisted blob, which has made one
\* initialize(), ended on a failure other than a declined prompt, and one
\* setItem or removeItem, no sync writes the blob store.
C24_NoSyncWriteAfterFailedLoad ==
  [][\A s \in SyncIds :
       (InitFailedOnly /\ blob # Nothing /\ restarts = 1 /\ calls = 2)
         => ~SyncWrite(s)]_vars

\* blob, keychain entry, preference and engine agree on key and policy
RotationConsistent ==
  /\ blob # Nothing /\ keystore # Nothing
  /\ BlobKey = keystore[1].key
  /\ encryptionKey = keystore[1].key
  /\ keystore[1].bio = StoredPreference
  /\ biometricsEnabled = keystore[1].bio

\* C25: in a process that has made one initialize() and two
\* setEnableBiometrics calls, when the second of the two rotations resolves
\* after the first has resolved, blob, keychain entry, preference and
\* engine agree on key and policy.
C25_OverlappingRotationsConsistent ==
  [][\A r \in RotIds :
       (/\ RotWritePref(r) /\ last = "rot_ok"
        /\ restarts = 0 /\ calls = 3 /\ InFlight = 1)
         => RotationConsistent']_vars
====
